---- MODULE Spec2Model ----
(***************************************************************************)
(* AI Pong (gemini-pong-1): the App session coordinator (App.tsx) and the  *)
(* per-frame simulation of the Game component (components/Game.tsx).       *)
(*                                                                         *)
(* Numbers.  The program computes in IEEE doubles.  The model computes in  *)
(* fixed point: a length, a coordinate, a speed and a particle life are    *)
(* integers counting 1/100 of the program's unit (Px(5) = 500 is 5 px), a  *)
(* frame delta and the speedIncrease setting are integers counting 1/100   *)
(* (100 is 1.0), an angle is an integer count of millidegrees.  Products   *)
(* and quotients round to the nearest model unit (RDiv).  Math.sin and     *)
(* Math.cos are a table of exact unit vectors (SinCos).                    *)
(***************************************************************************)
EXTENDS Integers, Sequences, FiniteSets, TLC

----------------------------------------------------------------------------
(* Arithmetic *)

Px(n) == 100 * n

Abs(a) == IF a < 0 THEN -a ELSE a

\* Math.sign
Sign(a) == IF a > 0 THEN 1 ELSE IF a < 0 THEN -1 ELSE 0

\* Math.min
Min(a, b) == IF a < b THEN a ELSE b

\* a / b for b > 0, rounded to the nearest integer (half away from zero)
RDiv(a, b) == IF a >= 0 THEN (2 * a + b) \div (2 * b)
                        ELSE -((2 * (-a) + b) \div (2 * b))

\* the product of two fixed-point numbers
FMul(a, b) == RDiv(a * b, 100)

RECURSIVE SqrtSearch(_, _, _)
SqrtSearch(n, lo, hi) ==
    IF lo >= hi THEN lo
    ELSE LET mid == (lo + hi + 1) \div 2
         IN  IF mid * mid <= n THEN SqrtSearch(n, mid, hi)
                               ELSE SqrtSearch(n, lo, mid - 1)

\* floor(sqrt(n)) for 0 <= n < 2^31
ISqrt(n) == SqrtSearch(n, 0, 46340)

\* Math.sin and Math.cos of an angle in millidegrees, as <<25 sin, 25 cos>>.
\* The table holds the angles whose sine and cosine are exact multiples of
\* 1/25 (0, 16.26, 36.87, 53.13, 73.74, 90 degrees and their supplements);
\* an angle takes the entry next to it on the side of 0 below 90 degrees and
\* on the side of 180 above, so that sin^2 + cos^2 = 1 holds exactly and the
\* signs of sine and cosine are those of the true angle.
SinCos(a) ==
    LET m == Abs(a)
        e == IF m < 16260 THEN <<0, 25>>
             ELSE IF m < 36870 THEN <<7, 24>>
             ELSE IF m < 53130 THEN <<15, 20>>
             ELSE IF m < 73740 THEN <<20, 15>>
             ELSE IF m < 90000 THEN <<24, 7>>
             ELSE IF m = 90000 THEN <<25, 0>>
             ELSE IF m <= 106260 THEN <<24, -7>>
             ELSE IF m <= 126870 THEN <<20, -15>>
             ELSE <<15, -20>>
    IN  <<Sign(a) * e[1], e[2]>>

----------------------------------------------------------------------------
(* constants.ts, in pixels and frames *)

GAME_WIDTH == 800
GAME_HEIGHT == 600
PADDLE_WIDTH == 120
PADDLE_HEIGHT == 20
PADDLE_Y_OFFSET == 30
MIN_PADDLE_WIDTH == 60
BALL_RADIUS == 10
INITIAL_BALL_SPEED == 5
\* DEFAULT_SPEED_INCREASE = 0.25, in 1/100
DEFAULT_SPEED_INCREASE == 25
MAX_BALL_SPEED == 15
BLOCK_WIDTH == 80
BLOCK_HEIGHT == 30
WINNING_SCORE == 5

(* Game.tsx *)
BLOCK_MAX_HEALTH == 3
TRAIL_MAX_LIFE == 20
EXPLOSION_MAX_LIFE == 70
particleCount == 40

\* MAX_BOUNCE_ANGLE = 5 pi / 12, in millidegrees
MAX_BOUNCE_ANGLE == 75000

\* the fixed-point field
W == Px(GAME_WIDTH)
H == Px(GAME_HEIGHT)
R == Px(BALL_RADIUS)

\* paddle.y of the player paddle and of the AI paddle (Game.tsx 148, 153)
PlayerPaddleY(p) == H - p.paddleHeight - Px(PADDLE_Y_OFFSET)
AiPaddleY == Px(PADDLE_Y_OFFSET)

\* createPaddle: a new paddle is centred
CreatePaddleX(p) == (W - p.paddleWidth) \div 2

\* blockPositions: the top-left corners of the three blocks, in layout order
blockPositions ==
    << [x |-> W \div 4 - Px(BLOCK_WIDTH) \div 2,
        y |-> H \div 2 - (3 * Px(BLOCK_HEIGHT)) \div 2],
       [x |-> (3 * W) \div 4 - Px(BLOCK_WIDTH) \div 2,
        y |-> H \div 2 - (3 * Px(BLOCK_HEIGHT)) \div 2],
       [x |-> W \div 2 - Px(BLOCK_WIDTH) \div 2,
        y |-> H \div 2 + Px(BLOCK_HEIGHT) \div 2] >>

BlockIds == 1 .. Len(blockPositions)

blockCenterX(i) == blockPositions[i].x + Px(BLOCK_WIDTH) \div 2
blockCenterY(i) == blockPositions[i].y + Px(BLOCK_HEIGHT) \div 2

NewBlock == [health |-> BLOCK_MAX_HEALTH, visible |-> TRUE]

\* resetBlocks that leaves the blocks as they are
ResetBlocksKeeps(bs) == bs

\* resetBlocks: every block back to full health and visible
ResetBlocks(bs) == [i \in DOMAIN bs |-> [health |-> BLOCK_MAX_HEALTH, visible |-> TRUE]]

----------------------------------------------------------------------------
(* The ticker callback, step by step.  A frame value f carries the ball    *)
(* (x, y, vx, vy), currentBallSpeed (speed), the blocks, shouldNormalize   *)
(* (norm) and what the frame has done so far: the score events it emitted  *)
(* (scored), the wall and paddle hits, the block it hit (hitBlock, 0 for   *)
(* none), the velocity that bounce set (bounce), the hit point and nudge of *)
(* each paddle hit (hits) and whether it called                            *)
(* createExplosion (exploded).                                             *)

\* Ball movement
MoveBall(f, delta) ==
    [f EXCEPT !.x = f.x + FMul(f.vx, delta), !.y = f.y + FMul(f.vy, delta)]

\* Wall collision
WallCollision(f) ==
    IF f.x - R < 0 \/ f.x + R > W
    THEN [f EXCEPT !.vx = -f.vx, !.norm = TRUE, !.wall = TRUE]
    ELSE f

\* resetBall that does not reset currentBallSpeed
ResetBallKeepsSpeed(p, f, direction, angle) ==
    LET sc == SinCos(angle)
    IN  [f EXCEPT !.blocks = ResetBlocks(f.blocks),
                  !.x = W \div 2,
                  !.y = H \div 2,
                  !.vx = RDiv(sc[1] * p.initialBallSpeed, 25),
                  !.vy = RDiv(sc[2] * p.initialBallSpeed, 25) * direction]

\* resetBall that leaves the ball where it is
ResetBallInPlace(p, f, direction, angle) ==
    [f EXCEPT !.blocks = ResetBlocks(f.blocks),
              !.speed = p.initialBallSpeed]

\* resetBall(direction), with the angle Math.random() draws
ResetBall(p, f, direction, angle) ==
    LET sc == SinCos(angle)
    IN  [f EXCEPT !.blocks = ResetBlocks(f.blocks),
                  !.speed = p.initialBallSpeed,
                  !.x = W \div 2,
                  !.y = H \div 2,
                  !.vx = RDiv(sc[1] * p.initialBallSpeed, 25),
                  !.vy = RDiv(sc[2] * p.initialBallSpeed, 25) * direction]

\* a score check that serves with the two directions exchanged
ScoreCheckServesAway(p, f, angle) ==
    IF f.y - R < 0
    THEN [ResetBall(p, f, -1, angle) EXCEPT !.scored = <<"player">>]
    ELSE IF f.y + R > H
    THEN [ResetBall(p, f, 1, angle) EXCEPT !.scored = <<"ai">>]
    ELSE f

\* Score: the ball's top edge above the field, else its bottom edge below
ScoreCheck(p, f, angle) ==
    IF f.y - R < 0
    THEN [ResetBall(p, f, 1, angle) EXCEPT !.scored = <<"player">>]
    ELSE IF f.y + R > H
    THEN [ResetBall(p, f, -1, angle) EXCEPT !.scored = <<"ai">>]
    ELSE f

\* getBounds of the ball, of the player paddle, and of the AI paddle's
\* container (the glow child reaches 2 px beyond the paddle on every side)
BallBounds(f) ==
    [x |-> f.x - R, y |-> f.y - R, width |-> 2 * R, height |-> 2 * R]
PlayerBounds(p, px) ==
    [x |-> px, y |-> PlayerPaddleY(p),
     width |-> p.paddleWidth, height |-> p.paddleHeight]
AiBounds(p, ax) ==
    [x |-> ax - Px(2), y |-> AiPaddleY - Px(2),
     width |-> p.paddleWidth + Px(4), height |-> p.paddleHeight + Px(4)]

checkCollision(a, b) ==
    /\ a.x + a.width > b.x
    /\ a.x < b.x + b.width
    /\ a.y + a.height > b.y
    /\ a.y < b.y + b.height

\* a nudge twice as strong
PaddleNudgeDoubled(p, ballX, paddleX) ==
    LET hitPoint == ballX - (paddleX + p.paddleWidth \div 2)
    IN  RDiv(hitPoint * Px(4), p.paddleWidth \div 2)

\* the x-velocity nudge of a paddle hit: (hitPoint / (paddleWidth / 2)) * 2
PaddleNudge(p, ballX, paddleX) ==
    LET hitPoint == ballX - (paddleX + p.paddleWidth \div 2)
    IN  RDiv(hitPoint * Px(2), p.paddleWidth \div 2)

\* a paddle hit that raises the speed without the cap of MAX_BALL_SPEED
PaddleCollisionUncapped(p, f, who, paddleX) ==
    LET b == IF who = "player" THEN PlayerBounds(p, paddleX)
                               ELSE AiBounds(p, paddleX)
    IN  IF checkCollision(BallBounds(f), b)
        THEN [f EXCEPT
                !.vy = -f.vy,
                !.y = IF who = "player" THEN PlayerPaddleY(p) - R
                                        ELSE AiPaddleY + p.paddleHeight + R,
                !.vx = f.vx + PaddleNudge(p, f.x, paddleX),
                !.speed = f.speed + p.speedIncrease,
                !.norm = TRUE,
                !.paddles = Append(f.paddles, who),
                !.hits = Append(f.hits,
                            [hitPoint |-> f.x - (paddleX + p.paddleWidth \div 2),
                             nudge |-> PaddleNudge(p, f.x, paddleX)])]
        ELSE f

\* Paddle collision with one paddle (who is "player" or "ai", at x = paddleX)
PaddleCollision(p, f, who, paddleX) ==
    LET b == IF who = "player" THEN PlayerBounds(p, paddleX)
                               ELSE AiBounds(p, paddleX)
    IN  IF checkCollision(BallBounds(f), b)
        THEN [f EXCEPT
                !.vy = -f.vy,
                !.y = IF who = "player" THEN PlayerPaddleY(p) - R
                                        ELSE AiPaddleY + p.paddleHeight + R,
                !.vx = f.vx + PaddleNudge(p, f.x, paddleX),
                !.speed = Min(f.speed + p.speedIncrease, Px(MAX_BALL_SPEED)),
                !.norm = TRUE,
                !.paddles = Append(f.paddles, who),
                !.hits = Append(f.hits,
                            [hitPoint |-> f.x - (paddleX + p.paddleWidth \div 2),
                             nudge |-> PaddleNudge(p, f.x, paddleX)])]
        ELSE f

\* the circle-rectangle test of the block loop
BlockOverlap(f, i) ==
    /\ Abs(f.x - blockCenterX(i)) < R + Px(BLOCK_WIDTH) \div 2
    /\ Abs(f.y - blockCenterY(i)) < R + Px(BLOCK_HEIGHT) \div 2

\* a block loop that does not skip invisible blocks
FirstHitAnyBlock(f) ==
    LET hit == {i \in BlockIds : BlockOverlap(f, i)}
    IN  IF hit = {} THEN 0 ELSE CHOOSE i \in hit : \A j \in hit : i <= j

\* for (const block of allBlocks): the first block, in layout order, that is
\* visible and overlaps the ball; 0 when the loop ends without a hit
FirstHit(f) ==
    LET hit == {i \in BlockIds : f.blocks[i].visible /\ BlockOverlap(f, i)}
    IN  IF hit = {} THEN 0 ELSE CHOOSE i \in hit : \A j \in hit : i <= j

\* an impact that takes two health points
DamageBlockByTwo(b) ==
    LET h == b.health - 2
    IN  [health |-> h, visible |-> IF h <= 0 THEN FALSE ELSE b.visible]

\* Handle breakable blocks: health down by one, hidden at zero
DamageBlock(b) ==
    LET h == b.health - 1
    IN  [health |-> h, visible |-> IF h <= 0 THEN FALSE ELSE b.visible]

\* the body of the loop for the block that is hit
BounceOffBlock(f, i) ==
    LET dx == f.x - blockCenterX(i)
        dy == f.y - blockCenterY(i)
        overlapX == R + Px(BLOCK_WIDTH) \div 2 - Abs(dx)
        overlapY == R + Px(BLOCK_HEIGHT) \div 2 - Abs(dy)
        nb == DamageBlock(f.blocks[i])
        g == IF overlapY < overlapX
             THEN \* Vertical collision
                  LET bounceAngle == RDiv(dx * MAX_BOUNCE_ANGLE, Px(BLOCK_WIDTH) \div 2)
                      sc == SinCos(bounceAngle)
                      direction == Sign(dy)
                  IN  [f EXCEPT !.y = f.y + (IF dy > 0 THEN overlapY ELSE -overlapY),
                                !.vx = RDiv(f.speed * sc[1], 25),
                                !.vy = RDiv(f.speed * sc[2], 25) * direction]
             ELSE \* Horizontal collision
                  LET bounceAngle == RDiv(dy * MAX_BOUNCE_ANGLE, Px(BLOCK_HEIGHT) \div 2)
                      sc == SinCos(bounceAngle)
                      direction == Sign(dx)
                  IN  [f EXCEPT !.x = f.x + (IF dx > 0 THEN overlapX ELSE -overlapX),
                                !.vy = RDiv(f.speed * sc[1], 25),
                                !.vx = RDiv(f.speed * sc[2], 25) * direction]
    IN  [g EXCEPT !.blocks[i] = nb,
                  !.hitBlock = i,
                  !.bounce = <<g.vx, g.vy>>,
                  !.exploded = ~nb.visible]

\* a block loop without the break: the hit damages every other block too
BlockCollisionNoBreak(f) ==
    LET i == FirstHit(f)
        g == BounceOffBlock(f, i)
    IN  IF i = 0 THEN f
        ELSE [g EXCEPT !.blocks = [j \in BlockIds |->
                                      IF j = i THEN g.blocks[j]
                                      ELSE DamageBlock(g.blocks[j])]]

\* Block collision with breakable logic
BlockCollision(f) ==
    LET i == FirstHit(f) IN IF i = 0 THEN f ELSE BounceOffBlock(f, i)

\* a re-normalization that serves a ball without velocity straight down
RenormalizeFallback(f) ==
    LET magnitude == ISqrt(256 * (f.vx * f.vx + f.vy * f.vy))
    IN  IF f.norm /\ magnitude > 0
        THEN [f EXCEPT !.vx = RDiv(16 * f.vx * f.speed, magnitude),
                       !.vy = RDiv(16 * f.vy * f.speed, magnitude)]
        ELSE IF f.norm THEN [f EXCEPT !.vy = f.speed]
        ELSE f

\* Re-normalize the ball's speed: the velocity rescaled to currentBallSpeed
\* unless its magnitude is 0.  The magnitude is taken to 1/16 of a unit.
Renormalize(f) ==
    LET magnitude == ISqrt(256 * (f.vx * f.vx + f.vy * f.vy))
    IN  IF f.norm /\ magnitude > 0
        THEN [f EXCEPT !.vx = RDiv(16 * f.vx * f.speed, magnitude),
                       !.vy = RDiv(16 * f.vy * f.speed, magnitude)]
        ELSE f

----------------------------------------------------------------------------
(* AI movement *)

\* aiReactionSpeed, in 1/10000: 0.05 + (0.20 - 0.05) * speedIncrease
AiReactionSpeed(p) == 500 + 15 * p.speedIncrease

\* a prediction that is clamped to the field, not mirrored
ReflectClamped(predictedX) ==
    IF predictedX < R THEN R
    ELSE IF predictedX > W - R THEN W - R
    ELSE predictedX

\* the single wall reflection of the predicted x
Reflect(predictedX) ==
    IF predictedX < R THEN R + (R - predictedX)
    ELSE IF predictedX > W - R THEN (W - R) - (predictedX - (W - R))
    ELSE predictedX

\* predictedX after the reflection, for a ball moving up (vy < 0)
PredictedX(p, f) ==
    Reflect(f.x + RDiv(f.vx * (AiPaddleY + p.paddleHeight - f.y), -f.vy))

\* aiTargetX; rand is the value of Math.random(), in 1/100
AiTargetX(p, f, rand) ==
    IF f.vy < 0
    THEN LET maxError == RDiv(p.paddleWidth * (100 - p.speedIncrease), 300)
             error == RDiv((rand - 50) * maxError, 100)
         IN  PredictedX(p, f) + error
    ELSE W \div 2

\* d * gain / 10000 without leaving the 32-bit range
Scaled(d, gain) ==
    IF Abs(d) <= 150000 THEN RDiv(d * gain, 10000) ELSE RDiv(d, 10000) * gain

\* newAiX before the clamp: aiPaddle.x + (target - aiPaddle.x) * aiReactionSpeed * delta
AiPursuit(p, ax, targetXForPaddle, delta) ==
    ax + Scaled(targetXForPaddle - ax, RDiv(AiReactionSpeed(p) * delta, 100))

\* a clamp without the lower bound
ClampPaddleXAbove(p, x) ==
    IF x > W - p.paddleWidth THEN W - p.paddleWidth ELSE x

\* the clamp of a paddle's x to the field
ClampPaddleX(p, x) ==
    IF x < 0 THEN 0 ELSE IF x > W - p.paddleWidth THEN W - p.paddleWidth ELSE x

\* the new aiPaddle.x
AiMove(p, f, ax, delta, rand) ==
    ClampPaddleX(p, AiPursuit(p, ax, AiTargetX(p, f, rand) - p.paddleWidth \div 2, delta))

\* a pointermove handler without the clamp
PointerPaddleXUnclamped(p, newX) == newX - p.paddleWidth \div 2

\* the pointermove handler: the new playerPaddle.x for event.global.x = newX
PointerPaddleX(p, newX) ==
    LET halfPaddleWidth == p.paddleWidth \div 2
        c == IF newX < halfPaddleWidth THEN halfPaddleWidth
             ELSE IF newX > W - halfPaddleWidth THEN W - halfPaddleWidth
             ELSE newX
    IN  c - halfPaddleWidth

----------------------------------------------------------------------------
(* Particles.  A trail particle is its remaining life.  Explosion particles *)
(* are kept in groups of n particles that drew the same angle, speed and    *)
(* life: [n, x, y, vx, vy, life, startLife].                                *)

GRAVITY == 5

RECURSIVE UpdateTrail(_, _)
UpdateTrail(ps, delta) ==
    IF ps = <<>> THEN <<>>
    ELSE LET life == Head(ps) - delta
             rest == UpdateTrail(Tail(ps), delta)
         IN  IF life <= 0 THEN rest ELSE <<life>> \o rest

\* createExplosion(x, y): particleCount particles at (x, y); half of them
\* draw d1 and half draw d2 from Math.random()
CreateExplosion(x, y, d1, d2) ==
    LET one(n, d) == [n |-> n, x |-> x, y |-> y, vx |-> d.vx, vy |-> d.vy,
                      life |-> d.life, startLife |-> d.life]
    IN  IF d1 = d2 THEN << one(particleCount, d1) >>
        ELSE << one(particleCount \div 2, d1),
                one(particleCount - particleCount \div 2, d2) >>

RECURSIVE UpdateExplosion(_, _)
UpdateExplosion(ps, delta) ==
    IF ps = <<>> THEN <<>>
    ELSE LET q == Head(ps)
             life == q.life - delta
             vy == q.vy + FMul(GRAVITY, delta)
             rest == UpdateExplosion(Tail(ps), delta)
         IN  IF life <= 0 THEN rest
             ELSE << [q EXCEPT !.life = life, !.vy = vy,
                               !.x = q.x + FMul(q.vx, delta),
                               !.y = q.y + FMul(vy, delta)] >> \o rest

\* the number of explosion particles
RECURSIVE ParticleTotal(_)
ParticleTotal(ps) ==
    IF ps = <<>> THEN 0 ELSE Head(ps).n + ParticleTotal(Tail(ps))

----------------------------------------------------------------------------
(* Inputs.  Two specifications share the actions below.  Spec follows the  *)
(* whole program, App and Game, through complete sessions at a steady      *)
(* frame rate: every frame of a Game has the deltaTime of its first.       *)
(* GameSpec follows one mounted Game through its first frames, and draws   *)
(* every input of every frame anew.                                        *)

\* Spec: the frames one mounted Game is followed for
MaxFrames == 60

\* GameSpec: the frames the Game is followed for
MaxGameFrames == 4
MaxLongFrames == 76
MaxLagFrames == 10
MaxRallyFrames == 56
MaxHostFrames == 12
MaxEvenFrames == 10
MaxWallFrames == 12
MaxSlowEvenFrames == 22
MaxSlowFrames == 33
MaxFrameCalls == 2

\* the frames the ticker may deliver while React has not yet applied a
\* setScore update
MaxPendingFrames == 1

\* the minimum of the initial-speed slider (App.tsx 74)
MinInitialBallSpeed == 2

\* what the two sliders of the start screen are set to (2..10 and 0..1)
InitialBallSpeeds == {Px(INITIAL_BALL_SPEED), Px(10)}
SpeedIncreases == {DEFAULT_SPEED_INCREASE, 100}

\* the paddleWidth and paddleHeight props of GameProps.  The App of App.tsx
\* renders <Game> without them; the session configuration that supplies them
\* is taken to hold the values of constants.ts.
PaddleWidths == {Px(PADDLE_WIDTH)}
PaddleHeights == {Px(PADDLE_HEIGHT)}
GamePaddleWidths == {Px(MIN_PADDLE_WIDTH), Px(PADDLE_WIDTH)}

\* ticker.deltaTime: 1 at 60 frames per second, up to 6 (the ticker caps the
\* elapsed time of a frame at 100 ms)
SessionDeltas == {100, 300, 600}
Deltas == {100, 600}
LagDeltas == {300, 600}
RallyDeltas == {600}
HostDeltas == {600}

\* the ball positions and velocity components a single frame is tried with
FrameBalls ==
    {[x |-> Px(5), y |-> Px(300)], [x |-> Px(400), y |-> Px(300)],
     [x |-> Px(795), y |-> Px(300)], [x |-> Px(400), y |-> Px(560)]}
FrameVelocities == {-Px(3), 0, Px(4)}

\* the serve angle of resetBall, within -45 .. +45 degrees
ServeAngles == {-36870, 0}

\* the browser's Web Audio: working, missing (the AudioContext constructor
\* throws) or failing (a trigger's calls throw)
AudioBackends == {"ok", "unavailable", "failing"}

\* Math.random() of the AI error, in 1/100
SessionRands == {50}
Rands == {0, 99}

\* event.global.x of a pointermove
SessionPointerXs == {-Px(50), Px(400), Px(900)}
PointerXs == {-Px(50), Px(400), Px(900)}
LagPointerXs == {Px(400), Px(900)}
RallyPointerXs == {Px(300), Px(400)}
HostPointerXs == {Px(400), Px(900)}
WallPointerXs == {Px(400), Px(900)}
SlowPointerXs == {Px(400), Px(900)}

\* the angle, speed and life one explosion particle draws
ParticleDraws ==
    { [vx |-> Px(2), vy |-> 0, life |-> Px(EXPLOSION_MAX_LIFE) \div 2],
      [vx |-> 0, vy |-> -Px(5), life |-> Px(100)] }

----------------------------------------------------------------------------
(* State *)

VARIABLES
    gameState,          \* App: "Start", "Playing" or "GameOver"
    score,              \* App: [player, ai]
    winner,             \* App: "You", "AI" or "null"
    initialBallSpeed,   \* App: the setting of the first slider
    speedIncrease,      \* App: the setting of the second slider
    scoreQueue,         \* the setScore updaters React has not applied yet
    pendingFrames,      \* the frames delivered since scoreQueue was empty
    outcomes,           \* the winners signalled since the last resetGame
    pixi,               \* "none", "initializing" (app.init pending) or "running"
    isMounted,          \* Game: isMounted
    gameActive,         \* Game: gameActive
    props,              \* Game: the props of the mounted Game
    ball,               \* Game: [x, y] of the ball
    ballVelocity,       \* Game: [x, y]
    currentBallSpeed,   \* Game
    playerPaddleX,      \* Game: playerPaddle.x
    aiPaddleX,          \* Game: aiPaddle.x
    blocks,             \* Game: allBlocks, each [health, visible]
    trailParticles,     \* Game
    explosionParticles, \* Game
    frames,             \* the frames the ticker has delivered to this Game
    lastFrame,          \* what the last frame did
    isPaused,           \* Game: the isPaused prop
    tickerStarted,      \* whether the ticker of the active app delivers frames
    liveApps,           \* the Applications created and not yet destroyed
    audioContext,       \* module level: "null" or "open"
    soundsDefined,      \* module level: whether sounds holds the four triggers
    audioBackend        \* the browser's Web Audio: "ok", "unavailable", "failing"

appVars == <<gameState, score, winner, initialBallSpeed, speedIncrease,
             scoreQueue, pendingFrames, outcomes>>
simVars == <<ball, ballVelocity, currentBallSpeed, playerPaddleX, aiPaddleX,
             blocks, trailParticles, explosionParticles>>
hostVars == <<isPaused, tickerStarted, liveApps, audioContext, soundsDefined,
              audioBackend>>
gameVars == <<pixi, isMounted, gameActive, props, simVars, frames, lastFrame,
              hostVars>>
vars == <<appVars, gameVars>>

NoProps == [initialBallSpeed |-> 0, speedIncrease |-> 0,
            paddleWidth |-> 0, paddleHeight |-> 0]
NoFrame == [delta |-> 0, scored |-> <<>>, wall |-> FALSE, paddles |-> <<>>,
            hits |-> <<>>,
            hitBlock |-> 0, bounce |-> <<>>, exploded |-> FALSE, norm |-> FALSE,
            spawned |-> <<>>, blocksBefore |-> <<>>, speedBefore |-> 0,
            threw |-> FALSE]

\* a Game that has created no objects yet
NoObjects ==
    /\ ball = [x |-> 0, y |-> 0]
    /\ ballVelocity = [x |-> 0, y |-> 0]
    /\ currentBallSpeed = 0
    /\ playerPaddleX = 0
    /\ aiPaddleX = 0
    /\ blocks = <<>>
    /\ trailParticles = <<>>
    /\ explosionParticles = <<>>
    /\ frames = 0
    /\ lastFrame = NoFrame

\* App as created: the start screen, no Game mounted
Init ==
    /\ gameState = "Start"
    /\ score = [player |-> 0, ai |-> 0]
    /\ winner = "null"
    /\ initialBallSpeed = Px(INITIAL_BALL_SPEED)
    /\ speedIncrease = DEFAULT_SPEED_INCREASE
    /\ scoreQueue = <<>>
    /\ pendingFrames = 0
    /\ outcomes = <<>>
    /\ pixi = "none"
    /\ isMounted = FALSE
    /\ gameActive = FALSE
    /\ props = NoProps
    /\ NoObjects
    /\ isPaused = FALSE
    /\ tickerStarted = FALSE
    /\ liveApps = 0
    /\ audioContext = "null"
    /\ soundsDefined = FALSE
    /\ audioBackend = "ok"

\* <Game> has just been mounted with the initial-speed slider at one of
\* speeds: its effect has created an Application and app.init() is pending
MountedAt(speeds) ==
    /\ gameState = "Playing"
    /\ score = [player |-> 0, ai |-> 0]
    /\ winner = "null"
    /\ initialBallSpeed \in speeds
    /\ speedIncrease \in SpeedIncreases
    /\ scoreQueue = <<>>
    /\ pendingFrames = 0
    /\ outcomes = <<>>
    /\ pixi = "initializing"
    /\ isMounted = TRUE
    /\ gameActive = TRUE
    /\ props \in [initialBallSpeed : {initialBallSpeed},
                  speedIncrease : {speedIncrease},
                  paddleWidth : GamePaddleWidths,
                  paddleHeight : PaddleHeights]
    /\ NoObjects
    /\ tickerStarted = FALSE
    /\ liveApps = 1
    /\ audioContext = "null"
    /\ soundsDefined = FALSE

GameMounted == MountedAt(InitialBallSpeeds)

\* Start Game has just been clicked with the initial-speed slider at its
\* minimum
SlowInit ==
    /\ MountedAt({Px(MinInitialBallSpeed)})
    /\ isPaused = FALSE
    /\ audioBackend = "ok"

\* a running Game as one call of the ticker callback may be handed it: the
\* ball free, beyond a side wall or on the middle of the player paddle, with
\* any of a few velocities, the zero velocity among them
FrameInit ==
    /\ gameState = "Playing"
    /\ score = [player |-> 0, ai |-> 0]
    /\ winner = "null"
    /\ initialBallSpeed \in InitialBallSpeeds
    /\ speedIncrease \in SpeedIncreases
    /\ scoreQueue = <<>>
    /\ pendingFrames = 0
    /\ outcomes = <<>>
    /\ pixi = "running"
    /\ isMounted = TRUE
    /\ gameActive = TRUE
    /\ props \in [initialBallSpeed : {initialBallSpeed},
                  speedIncrease : {speedIncrease},
                  paddleWidth : GamePaddleWidths,
                  paddleHeight : PaddleHeights]
    /\ ball \in FrameBalls
    /\ ballVelocity \in [x : FrameVelocities, y : FrameVelocities]
    /\ currentBallSpeed = props.initialBallSpeed
    /\ playerPaddleX = CreatePaddleX(props)
    /\ aiPaddleX = CreatePaddleX(props)
    /\ blocks = [i \in BlockIds |-> NewBlock]
    /\ trailParticles = <<>>
    /\ explosionParticles = <<>>
    /\ frames = 0
    /\ lastFrame = NoFrame
    /\ isPaused = FALSE
    /\ tickerStarted = TRUE
    /\ liveApps = 1
    /\ audioContext = "open"
    /\ soundsDefined = TRUE
    /\ audioBackend = "ok"

\* Start Game has just been clicked: the sliders are set, <Game> is mounted
\* without an isPaused prop, and the browser's audio works
GameInit ==
    /\ GameMounted
    /\ isPaused = FALSE
    /\ audioBackend = "ok"

\* <Game> mounted by a host that chooses isPaused, in a browser whose audio
\* may be missing or failing
HostInit ==
    /\ GameMounted
    /\ isPaused \in BOOLEAN
    /\ audioBackend \in AudioBackends

----------------------------------------------------------------------------
(* App.tsx *)

\* an updater that raises both counters
handleScoreUpdateBoth(prevScore, scorer) ==
    [player |-> prevScore.player + 1, ai |-> prevScore.ai + 1]

\* the updater of handleScoreUpdate
handleScoreUpdate(prevScore, scorer) ==
    [prevScore EXCEPT ![scorer] = prevScore[scorer] + 1]

\* React applies the queued updaters in order
RECURSIVE ApplyUpdaters(_, _)
ApplyUpdaters(s, q) ==
    IF q = <<>> THEN s
    ELSE ApplyUpdaters(handleScoreUpdate(s, Head(q)), Tail(q))

\* an effect that names the other side
ScoreEffectSwapped(s) ==
    IF s.player >= WINNING_SCORE THEN "AI"
    ELSE IF s.ai >= WINNING_SCORE THEN "You"
    ELSE "null"

\* the effect on [score]: the winner it sets, "null" when it sets none
ScoreEffect(s) ==
    IF s.player >= WINNING_SCORE THEN "You"
    ELSE IF s.ai >= WINNING_SCORE THEN "AI"
    ELSE "null"

\* a cleanup that leaves the ticker running
UnmountTickerAlive ==
    /\ isMounted' = FALSE
    /\ UNCHANGED <<gameActive, pixi, props, simVars, frames, lastFrame, hostVars>>

\* the cleanup of the Game's effect, run when App stops rendering <Game>
Unmount ==
    /\ isMounted' = FALSE
    /\ gameActive' = FALSE
    /\ pixi' = IF pixi = "running" THEN "none" ELSE pixi
    /\ liveApps' = IF pixi = "running" THEN liveApps - 1 ELSE liveApps
    /\ tickerStarted' = FALSE
    /\ audioContext' = "null"
    /\ UNCHANGED <<props, simVars, frames, lastFrame, isPaused, soundsDefined,
                   audioBackend>>

\* the objects of an unmounted Game are unreachable, a new Game has none yet
DropObjects ==
    /\ ball' = [x |-> 0, y |-> 0]
    /\ ballVelocity' = [x |-> 0, y |-> 0]
    /\ currentBallSpeed' = 0
    /\ playerPaddleX' = 0
    /\ aiPaddleX' = 0
    /\ blocks' = <<>>
    /\ trailParticles' = <<>>
    /\ explosionParticles' = <<>>
    /\ frames' = 0
    /\ lastFrame' = NoFrame

\* React renders <Game>: a new component whose effect starts initPixiApp
Mount ==
    /\ isMounted' = TRUE
    /\ gameActive' = TRUE
    /\ pixi' = "initializing"
    /\ \E w \in PaddleWidths, h \in PaddleHeights :
          props' = [initialBallSpeed |-> initialBallSpeed,
                    speedIncrease |-> speedIncrease,
                    paddleWidth |-> w, paddleHeight |-> h]
    /\ DropObjects
    /\ isPaused' = FALSE
    /\ tickerStarted' = FALSE
    /\ liveApps' = liveApps + 1
    /\ UNCHANGED <<audioContext, soundsDefined, audioBackend>>

\* resetGame
resetGame ==
    /\ score' = [player |-> 0, ai |-> 0]
    /\ winner' = "null"
    /\ outcomes' = <<>>

\* the sliders of the start screen
SetInitialBallSpeed(v) ==
    /\ gameState = "Start"
    /\ v # initialBallSpeed
    /\ initialBallSpeed' = v
    /\ UNCHANGED <<gameState, score, winner, speedIncrease, scoreQueue,
                   pendingFrames, outcomes, gameVars>>

SetSpeedIncrease(v) ==
    /\ gameState = "Start"
    /\ v # speedIncrease
    /\ speedIncrease' = v
    /\ UNCHANGED <<gameState, score, winner, initialBallSpeed, scoreQueue,
                   pendingFrames, outcomes, gameVars>>

handleStartGame ==
    /\ gameState = "Start"
    /\ resetGame
    /\ gameState' = "Playing"
    /\ Mount
    /\ UNCHANGED <<initialBallSpeed, speedIncrease, scoreQueue, pendingFrames>>

handlePlayAgain ==
    /\ gameState = "GameOver"
    /\ resetGame
    /\ gameState' = "Playing"
    /\ Mount
    /\ UNCHANGED <<initialBallSpeed, speedIncrease, scoreQueue, pendingFrames>>

handleGoToMenu ==
    /\ gameState = "GameOver"
    /\ resetGame
    /\ gameState' = "Start"
    /\ isMounted' = FALSE
    /\ gameActive' = FALSE
    /\ pixi' = "none"
    /\ props' = NoProps
    /\ DropObjects
    /\ UNCHANGED <<initialBallSpeed, speedIncrease, scoreQueue, pendingFrames,
                   hostVars>>

\* React applies the pending setScore updaters, renders, and runs the effect
\* on [score]; a winner ends the session and <Game> is unmounted
ScoreCommit ==
    /\ scoreQueue # <<>>
    /\ score' = ApplyUpdaters(score, scoreQueue)
    /\ scoreQueue' = <<>>
    /\ pendingFrames' = 0
    /\ IF ScoreEffect(score') # "null"
       THEN /\ winner' = ScoreEffect(score')
            /\ gameState' = "GameOver"
            /\ outcomes' = Append(outcomes, ScoreEffect(score'))
            /\ Unmount
       ELSE UNCHANGED <<winner, gameState, outcomes, gameVars>>
    /\ UNCHANGED <<initialBallSpeed, speedIncrease>>

----------------------------------------------------------------------------
(* Game.tsx *)

\* initAudio: a context and the four triggers, unless a context exists or
\* its construction throws
initAudio ==
    IF audioContext = "null" /\ audioBackend # "unavailable"
    THEN audioContext' = "open" /\ soundsDefined' = TRUE
    ELSE UNCHANGED <<audioContext, soundsDefined>>

\* an init that never finds its Game unmounted
InitNeverAbandoned == FALSE

\* the test after await app.init(): the Game was unmounted meanwhile
InitAbandoned == ~isMounted

\* app.init() resolves: an unmounted Game destroys the app; a mounted one
\* makes it the active app, whose ticker starts by itself, and creates the
\* game objects, serves the ball in a random direction and adds the ticker
\* callback
InitComplete ==
    /\ pixi = "initializing"
    /\ IF InitAbandoned
       THEN /\ pixi' = "none"
            /\ liveApps' = liveApps - 1
            /\ UNCHANGED <<isMounted, gameActive, props, simVars, frames, lastFrame,
                           isPaused, tickerStarted, audioContext, soundsDefined,
                           audioBackend>>
       ELSE \E direction \in {1, -1}, angle \in ServeAngles :
              LET f0 == [x |-> 0, y |-> 0, vx |-> 0, vy |-> 0,
                         speed |-> props.initialBallSpeed,
                         blocks |-> [i \in BlockIds |-> NewBlock]]
                  f == ResetBall(props, f0, direction, angle)
              IN  /\ pixi' = "running"
                  /\ playerPaddleX' = CreatePaddleX(props)
                  /\ aiPaddleX' = CreatePaddleX(props)
                  /\ blocks' = f.blocks
                  /\ ball' = [x |-> f.x, y |-> f.y]
                  /\ ballVelocity' = [x |-> f.vx, y |-> f.vy]
                  /\ currentBallSpeed' = f.speed
                  /\ trailParticles' = <<>>
                  /\ explosionParticles' = <<>>
                  /\ tickerStarted' = TRUE
                  /\ initAudio
                  /\ UNCHANGED <<isMounted, gameActive, props, frames, lastFrame,
                                 isPaused, liveApps, audioBackend>>
    /\ UNCHANGED appVars

\* the pointermove handler of the stage
PointerMove(newX) ==
    /\ pixi = "running"
    /\ playerPaddleX' = PointerPaddleX(props, newX)
    /\ UNCHANGED <<appVars, pixi, isMounted, gameActive, props, ball, ballVelocity,
                   currentBallSpeed, aiPaddleX, blocks, trailParticles,
                   explosionParticles, frames, lastFrame, hostVars>>

\* the isPaused prop changes and the effect on [isPaused] stops or starts
\* the ticker of the active app, if there is one
SetPaused(paused) ==
    /\ isMounted
    /\ paused # isPaused
    /\ isPaused' = paused
    /\ tickerStarted' = IF pixi = "running" THEN ~paused ELSE tickerStarted
    /\ UNCHANGED <<appVars, pixi, isMounted, gameActive, props, simVars, frames,
                   lastFrame, liveApps, audioContext, soundsDefined, audioBackend>>

\* the host stops rendering <Game>
Teardown ==
    /\ isMounted
    /\ Unmount
    /\ UNCHANGED appVars

\* whether a sound trigger throws when the callback fires it: the triggers
\* exist, they find a context, and the context's calls fail
SoundThrows == soundsDefined /\ audioContext = "open" /\ audioBackend = "failing"

\* the frame as the ticker callback finds it; throws tells whether a sound
\* trigger fired in this frame throws, threw whether one has
FrameStart ==
    [x |-> ball.x, y |-> ball.y, vx |-> ballVelocity.x, vy |-> ballVelocity.y,
     speed |-> currentBallSpeed, blocks |-> blocks, norm |-> FALSE,
     wall |-> FALSE, scored |-> <<>>, paddles |-> <<>>, hits |-> <<>>,
     hitBlock |-> 0, bounce |-> <<>>, exploded |-> FALSE,
     throws |-> SoundThrows, threw |-> FALSE]

\* whether the Score step of this frame resets the ball
Scores(f) == f.y - R < 0 \/ f.y + R > H

\* the Score step with its sound: sounds.playerScore or sounds.aiScore is
\* called before onScoreUpdate and resetBall, and an exception it throws ends
\* the callback there
ScoreStep(p, f, angle) ==
    IF f.throws /\ Scores(f) THEN [f EXCEPT !.threw = TRUE]
    ELSE ScoreCheck(p, f, angle)

\* the collision with one paddle with its sound: sounds.paddleHit is called
\* first in the branch of a hit
PaddleStep(p, f, who, paddleX) ==
    LET b == IF who = "player" THEN PlayerBounds(p, paddleX)
                               ELSE AiBounds(p, paddleX)
    IN  IF f.threw THEN f
        ELSE IF f.throws /\ checkCollision(BallBounds(f), b)
        THEN [f EXCEPT !.threw = TRUE]
        ELSE PaddleCollision(p, f, who, paddleX)

\* the block loop with its sound: sounds.blockHit is called after the bounce
\* and before the block's health is changed
BlockStep(f) ==
    LET i == FirstHit(f)
        g == BounceOffBlock(f, i)
    IN  IF f.threw THEN f
        ELSE IF f.throws /\ i # 0
        THEN [f EXCEPT !.x = g.x, !.y = g.y, !.vx = g.vx, !.vy = g.vy,
                       !.bounce = g.bounce, !.threw = TRUE]
        ELSE BlockCollision(f)

\* the re-normalization, which a callback that threw does not reach
RenormalizeStep(f) == IF f.threw THEN f ELSE Renormalize(f)

\* the frame after ball movement and wall collision
AfterWall(delta) == WallCollision(MoveBall(FrameStart, delta))

\* the frame after the score check
AfterScore(delta, angle) == ScoreStep(props, AfterWall(delta), angle)

\* the frame after the paddle collisions
AfterPaddles(delta, angle) ==
    PaddleStep(props,
        PaddleStep(props, AfterScore(delta, angle), "player", playerPaddleX),
        "ai", aiPaddleX)

\* the frame after all collision logic and the re-normalization
AfterCollisions(delta, angle) ==
    RenormalizeStep(BlockStep(AfterPaddles(delta, angle)))

\* the explosion particles a frame creates
Spawned(f, d1, d2) ==
    IF f.exploded
    THEN CreateExplosion(blockCenterX(f.hitBlock), blockCenterY(f.hitBlock), d1, d2)
    ELSE <<>>

\* one call of the ticker callback, with deltaTime drawn from Ds and the
\* Math.random() of the AI error from Rs.  A callback that threw leaves the
\* rest of its frame undone; whether the ticker delivers further frames after
\* that is the ticker's matter, and either can happen.
Tick(Ds, Rs, cap) ==
    /\ pixi = "running"
    /\ tickerStarted
    /\ frames < cap
    /\ scoreQueue = <<>> \/ pendingFrames < MaxPendingFrames
    /\ IF ~gameActive
       THEN UNCHANGED vars
       ELSE \E delta \in Ds :
            \E angle \in IF Scores(AfterWall(delta)) THEN ServeAngles ELSE {0} :
            \E f \in {AfterCollisions(delta, angle)} :
                  \E rand \in IF f.vy < 0 /\ ~f.threw THEN Rs ELSE {50} :
                  \E started \in IF f.threw THEN BOOLEAN ELSE {TRUE} :
                  \E d1 \in IF f.exploded THEN ParticleDraws ELSE {0} :
                  \E d2 \in IF f.exploded THEN ParticleDraws ELSE {0} :
                    /\ ball' = [x |-> f.x, y |-> f.y]
                    /\ ballVelocity' = [x |-> f.vx, y |-> f.vy]
                    /\ currentBallSpeed' = f.speed
                    /\ blocks' = f.blocks
                    /\ trailParticles' =
                          IF f.threw THEN trailParticles
                          ELSE UpdateTrail(Append(trailParticles, Px(TRAIL_MAX_LIFE)),
                                           delta)
                    /\ explosionParticles' =
                          IF f.threw THEN explosionParticles
                          ELSE UpdateExplosion(explosionParticles \o Spawned(f, d1, d2),
                                               delta)
                    /\ aiPaddleX' = IF f.threw THEN aiPaddleX
                                    ELSE AiMove(props, f, aiPaddleX, delta, rand)
                    /\ tickerStarted' = started
                    /\ scoreQueue' = scoreQueue \o f.scored
                    /\ pendingFrames' = IF scoreQueue = <<>> THEN 0 ELSE pendingFrames + 1
                    /\ frames' = frames + 1
                    /\ lastFrame' = [delta |-> delta, scored |-> f.scored,
                                     wall |-> f.wall, paddles |-> f.paddles,
                                     hits |-> f.hits,
                                     hitBlock |-> f.hitBlock,
                                     bounce |-> f.bounce,
                                     exploded |-> f.exploded, norm |-> f.norm,
                                     spawned |-> Spawned(f, d1, d2),
                                     blocksBefore |-> blocks,
                                     speedBefore |-> currentBallSpeed,
                                     threw |-> f.threw]
                    /\ UNCHANGED <<gameState, score, winner, initialBallSpeed,
                                   speedIncrease, outcomes, pixi, isMounted,
                                   gameActive, props, playerPaddleX, isPaused,
                                   liveApps, audioContext, soundsDefined,
                                   audioBackend>>

----------------------------------------------------------------------------
(* The specifications *)

\* ticker.deltaTime at a steady frame rate
SteadyDeltas == IF frames = 0 THEN SessionDeltas ELSE {lastFrame.delta}

\* ticker.deltaTime of a Game whose frame rate is even at first
WallDeltas == IF frames < MaxEvenFrames THEN {600} ELSE {100, 600}
SlowDeltas == IF frames < MaxSlowEvenFrames THEN {600} ELSE {100, 600}

Next ==
    \/ \E v \in InitialBallSpeeds : SetInitialBallSpeed(v)
    \/ \E v \in SpeedIncreases : SetSpeedIncrease(v)
    \/ handleStartGame
    \/ handlePlayAgain
    \/ handleGoToMenu
    \/ ScoreCommit
    \/ InitComplete
    \/ \E newX \in SessionPointerXs : PointerMove(newX)
    \/ Tick(SteadyDeltas, SessionRands, MaxFrames)

Spec == Init /\ [][Next]_vars

\* whole sessions as in Spec, with rallies long enough for the ball to reach
\* MAX_BALL_SPEED
LongNext ==
    \/ \E v \in InitialBallSpeeds : SetInitialBallSpeed(v)
    \/ \E v \in SpeedIncreases : SetSpeedIncrease(v)
    \/ handleStartGame
    \/ handlePlayAgain
    \/ handleGoToMenu
    \/ ScoreCommit
    \/ InitComplete
    \/ \E newX \in SessionPointerXs : PointerMove(newX)
    \/ Tick(SteadyDeltas, SessionRands, MaxLongFrames)

LongSpec == Init /\ [][LongNext]_vars

GameNext ==
    \/ InitComplete
    \/ \E newX \in PointerXs : PointerMove(newX)
    \/ Tick(Deltas, Rands, MaxGameFrames)

GameSpec == GameInit /\ [][GameNext]_vars

\* one mounted Game whose frame rate changes between 20 and 10 frames per
\* second, with the pointer at rest or at the right edge
LagNext ==
    \/ InitComplete
    \/ \E newX \in LagPointerXs : PointerMove(newX)
    \/ Tick(LagDeltas, SessionRands, MaxLagFrames)

LagSpec == GameInit /\ [][LagNext]_vars

\* one mounted Game at 10 frames per second, through its first rallies, with
\* the pointer at the centre or left of it
RallyNext ==
    \/ ScoreCommit
    \/ InitComplete
    \/ \E newX \in RallyPointerXs : PointerMove(newX)
    \/ Tick(RallyDeltas, SessionRands, MaxRallyFrames)

RallySpec == GameInit /\ [][RallyNext]_vars

\* one mounted Game that runs at 10 frames per second for its first frames
\* and then at 10 or 60 frames per second, frame by frame
WallNext ==
    \/ ScoreCommit
    \/ InitComplete
    \/ \E newX \in WallPointerXs : PointerMove(newX)
    \/ Tick(WallDeltas, SessionRands, MaxWallFrames)

WallSpec == GameInit /\ [][WallNext]_vars

\* one mounted Game with the slowest ball, at 10 frames per second while the
\* ball travels to the AI paddle and then at 10 or 60 frames per second
SlowNext ==
    \/ InitComplete
    \/ \E newX \in SlowPointerXs : PointerMove(newX)
    \/ Tick(SlowDeltas, SessionRands, MaxSlowFrames)

SlowSpec == SlowInit /\ [][SlowNext]_vars

\* the ticker callback applied to the states of FrameInit
FrameNext == Tick(Deltas, SessionRands, MaxFrameCalls)

FrameSpec == FrameInit /\ [][FrameNext]_vars

\* one mounted Game under a host that pauses and resumes it and may tear it
\* down at any time, in a browser whose audio may be missing or failing
HostNext ==
    \/ ScoreCommit
    \/ InitComplete
    \/ \E newX \in HostPointerXs : PointerMove(newX)
    \/ \E paused \in BOOLEAN : SetPaused(paused)
    \/ Teardown
    \/ Tick(HostDeltas, SessionRands, MaxHostFrames)

HostSpec == HostInit /\ [][HostNext]_vars

----------------------------------------------------------------------------
(* Properties *)

Centre == [x |-> W \div 2, y |-> H \div 2]
Zero == [player |-> 0, ai |-> 0]
Count(q, who) == Cardinality({k \in DOMAIN q : q[k] = who})
SpeedSquared(v) == v[1] * v[1] + v[2] * v[2]

\* the step is one frame of the ticker callback
IsFrame == frames' = frames + 1

C2_ScoreCounters ==
    [][ IF gameState' # gameState /\ gameState' # "GameOver"
        THEN score' = Zero
        ELSE /\ score'.player >= score.player
             /\ score'.ai >= score.ai
             /\ score' # score => scoreQueue # <<>> /\ scoreQueue' = <<>>
             /\ scoreQueue # <<>> /\ scoreQueue' = <<>> =>
                  /\ score'.player = score.player + Count(scoreQueue, "player")
                  /\ score'.ai = score.ai + Count(scoreQueue, "ai")
                  /\ score'.player + score'.ai = score.player + score.ai + Len(scoreQueue)
      ]_vars

\* a session played to its end, both sides having scored
C2_Witness ==
    /\ gameState = "GameOver"
    /\ score.ai = WINNING_SCORE
    /\ score.player >= 1

\* C3: every block's health is in 0 .. BLOCK_MAX_HEALTH, and in a frame
\* without a score event a block that is invisible keeps its health and
\* visibility and is not the block the ball bounces off.
C3_BlockHealth ==
    /\ [](\A i \in DOMAIN blocks :
             0 <= blocks[i].health /\ blocks[i].health <= BLOCK_MAX_HEALTH)
    /\ [][ IsFrame /\ lastFrame'.scored = <<>> =>
             \A i \in DOMAIN blocks :
                ~blocks[i].visible =>
                    blocks'[i] = blocks[i] /\ lastFrame'.hitBlock # i
         ]_vars

\* the ball has gone through a block that an earlier frame destroyed
C3_Witness ==
    /\ frames >= 1
    /\ lastFrame.hitBlock = 0
    /\ lastFrame.scored = <<>>
    /\ \E i \in DOMAIN blocks :
          /\ blocks[i].health = 0
          /\ ~blocks[i].visible
          /\ BlockOverlap([x |-> ball.x, y |-> ball.y], i)

C5_Outcome ==
    /\ Len(outcomes) <= 1
    /\ gameState = "GameOver" <=> Len(outcomes) = 1
    /\ score.player >= WINNING_SCORE => outcomes = <<"You">> /\ winner = "You"
    /\ score.player < WINNING_SCORE /\ score.ai >= WINNING_SCORE =>
          outcomes = <<"AI">> /\ winner = "AI"
    /\ score.player < WINNING_SCORE /\ score.ai < WINNING_SCORE =>
          outcomes = <<>> /\ winner = "null"

\* the AI has won and the outcome has been signalled
C5_Witness ==
    /\ outcomes = <<"AI">>
    /\ winner = "AI"
    /\ score.ai = WINNING_SCORE
    /\ score.player < WINNING_SCORE

\* C6: a frame whose ball, after movement and wall collision, has its top
\* edge above y = 0 emits exactly one player-score event and ends with the
\* ball at the centre, currentBallSpeed at the initial speed and a positive
\* vertical velocity; a ball whose bottom edge is below GAME_HEIGHT gives
\* exactly one AI-score event and a negative vertical velocity; any other
\* frame emits no score event.
C6_ScoreFrame ==
    [][ IsFrame =>
          LET f == AfterWall(lastFrame'.delta)
          IN  /\ f.y - R < 0 =>
                    /\ lastFrame'.scored = <<"player">>
                    /\ scoreQueue' = Append(scoreQueue, "player")
                    /\ ball' = Centre
                    /\ currentBallSpeed' = props.initialBallSpeed
                    /\ ballVelocity'.y > 0
              /\ f.y - R >= 0 /\ f.y + R > H =>
                    /\ lastFrame'.scored = <<"ai">>
                    /\ scoreQueue' = Append(scoreQueue, "ai")
                    /\ ball' = Centre
                    /\ currentBallSpeed' = props.initialBallSpeed
                    /\ ballVelocity'.y < 0
              /\ f.y - R >= 0 /\ f.y + R <= H =>
                    lastFrame'.scored = <<>> /\ scoreQueue' = scoreQueue
      ]_vars

\* the player has just scored, after a rally that had raised the speed
C6_Witness ==
    /\ lastFrame.scored = <<"player">>
    /\ ball = Centre
    /\ ballVelocity.y > 0
    /\ currentBallSpeed = props.initialBallSpeed
    /\ score.ai >= 1

\* C7, as the spec states it: after a score-triggered reset the ball moves
\* toward the side that did not score, up after a player score and down
\* after an AI score.
C7_ServeAwayFromScorer ==
    /\ lastFrame.scored = <<"player">> => ballVelocity.y < 0
    /\ lastFrame.scored = <<"ai">> => ballVelocity.y > 0

\* C7, as the code has it: after a score-triggered reset the ball moves
\* toward the side that scored, down (toward the player's edge) after a
\* player score and up (toward the AI's edge) after an AI score.
C7_ServeTowardScorer ==
    /\ lastFrame.scored = <<"player">> => ballVelocity.y > 0
    /\ lastFrame.scored = <<"ai">> => ballVelocity.y < 0

\* the AI has just scored and the ball moves up
C7_Witness ==
    /\ lastFrame.scored = <<"ai">>
    /\ ballVelocity.y < 0
    /\ ball = Centre

\* C8: at the end of a frame that emitted a score event every block has
\* health BLOCK_MAX_HEALTH and is visible.
C8_BlocksRegenerate ==
    lastFrame.scored # <<>> =>
        \A i \in DOMAIN blocks :
            blocks[i].health = BLOCK_MAX_HEALTH /\ blocks[i].visible

\* a score frame that began with a destroyed block
C8_Witness ==
    /\ lastFrame.scored # <<>>
    /\ \E i \in DOMAIN lastFrame.blocksBefore :
          ~lastFrame.blocksBefore[i].visible
    /\ \A i \in DOMAIN blocks : blocks[i] = NewBlock

\* the health block i has when the block loop of the frame runs
HealthAtLoop(i) ==
    IF lastFrame'.scored # <<>> THEN BLOCK_MAX_HEALTH ELSE blocks[i].health

\* C9: a frame in which the ball hits a block lowers that block's health by
\* exactly 1 and leaves the other blocks alone; it spawns an explosion if and
\* only if the health reaches 0, and then the block is invisible at the end
\* of the frame and exactly 40 particles, all created at the block's centre,
\* are added; otherwise the block stays visible and no particle is added.
C9_BlockImpact ==
    [][ IsFrame =>
          LET i == lastFrame'.hitBlock
              old == UpdateExplosion(explosionParticles, lastFrame'.delta)
              new == lastFrame'.spawned
          IN  /\ explosionParticles' = old \o UpdateExplosion(new, lastFrame'.delta)
              /\ i = 0 => new = <<>>
              /\ i # 0 =>
                    /\ blocks'[i].health = HealthAtLoop(i) - 1
                    /\ \A j \in DOMAIN blocks' \ {i} :
                          blocks'[j].health = HealthAtLoop(j)
                    /\ lastFrame'.exploded <=> blocks'[i].health = 0
                    /\ lastFrame'.exploded =>
                          /\ ~blocks'[i].visible
                          /\ ParticleTotal(new) = 40
                          /\ \A k \in DOMAIN new :
                                new[k].x = blockCenterX(i) /\ new[k].y = blockCenterY(i)
                          /\ ParticleTotal(explosionParticles') = ParticleTotal(old) + 40
                    /\ ~lastFrame'.exploded =>
                          /\ blocks'[i].visible
                          /\ new = <<>>
                          /\ explosionParticles' = old
      ]_vars

\* the third impact on a block has destroyed it
C9_Witness ==
    /\ lastFrame.exploded
    /\ lastFrame.hitBlock # 0
    /\ blocks[lastFrame.hitBlock] = [health |-> 0, visible |-> FALSE]
    /\ ParticleTotal(lastFrame.spawned) = 40
    /\ ParticleTotal(explosionParticles) >= 40

\* C10: after every block bounce the velocity the bounce-angle formula set
\* has magnitude currentBallSpeed, with no re-normalization.
C10_BounceKeepsSpeed ==
    lastFrame.hitBlock # 0 =>
        SpeedSquared(lastFrame.bounce) = currentBallSpeed * currentBallSpeed

\* how far, in 1/100, a magnitude may be from currentBallSpeed and count as
\* equal to it
SpeedTolerance == 5

\* the magnitude of the ball's velocity is currentBallSpeed
AtSpeed(v, speed) ==
    /\ (speed - SpeedTolerance) * (speed - SpeedTolerance) <= v.x * v.x + v.y * v.y
    /\ v.x * v.x + v.y * v.y <= (speed + SpeedTolerance) * (speed + SpeedTolerance)

\* C11: at the end of every frame that had no block bounce the magnitude of
\* the ball's velocity is currentBallSpeed.
C11_FrameKeepsSpeed ==
    pixi = "running" /\ frames >= 1 /\ lastFrame.hitBlock = 0 =>
        AtSpeed(ballVelocity, currentBallSpeed)

\* the bound of |hitPoint| at which ball and paddle boxes can overlap: half
\* the paddle, the ball's radius and, for the AI paddle, the 2 px of its glow
HitReach(who) ==
    props.paddleWidth \div 2 + R + (IF who = "ai" THEN Px(2) ELSE 0)

C16_BallMovesVertically ==
    pixi = "running" => ballVelocity.y # 0


RECURSIVE Raised(_, _)
Raised(speed, hits) ==
    IF hits = 0 THEN speed
    ELSE Raised(Min(speed + props.speedIncrease, Px(MAX_BALL_SPEED)), hits - 1)

\* C17: while a game runs initialBallSpeed <= currentBallSpeed <=
\* MAX_BALL_SPEED; a frame changes the speed only by a score event, which sets
\* it back to initialBallSpeed, and by a paddle hit, which raises it to
\* min(speed + speedIncrease, MAX_BALL_SPEED); wall and block bounces and every
\* step that is not a frame leave it as it is.
C17_SpeedRange ==
    /\ [](pixi = "running" =>
            /\ props.initialBallSpeed <= currentBallSpeed
            /\ currentBallSpeed <= Px(MAX_BALL_SPEED))
    /\ [][ /\ IsFrame =>
                currentBallSpeed' =
                    Raised(IF lastFrame'.scored # <<>> THEN props.initialBallSpeed
                                                       ELSE currentBallSpeed,
                           Len(lastFrame'.paddles))
           /\ pixi = "running" /\ pixi' = "running" /\ ~IsFrame =>
                currentBallSpeed' = currentBallSpeed
       ]_vars

C17_Witness ==
    /\ pixi = "running"
    /\ lastFrame.paddles # <<>>
    /\ lastFrame.speedBefore = Px(MAX_BALL_SPEED)
    /\ currentBallSpeed = Px(MAX_BALL_SPEED)


HitOffset(f, i) ==
    LET dx == f.x - blockCenterX(i)
        dy == f.y - blockCenterY(i)
        vertical == Px(BLOCK_HEIGHT) \div 2 - Abs(dy) < Px(BLOCK_WIDTH) \div 2 - Abs(dx)
    IN  [vertical |-> vertical,
         along |-> IF vertical THEN dx ELSE dy,
         half |-> IF vertical THEN Px(BLOCK_WIDTH) \div 2 ELSE Px(BLOCK_HEIGHT) \div 2,
         across |-> IF vertical THEN dy ELSE dx]

\* C19: in every block collision the normalized hit offset along the struck
\* face lies in [-1, 1], so that the bounce angle is at most MAX_BOUNCE_ANGLE
\* in magnitude, and the velocity component along the collision axis gets the
\* sign of the ball's offset from the block's centre.
C19_BounceAngleBound ==
    [][ IsFrame /\ lastFrame'.hitBlock # 0 =>
          LET h == HitOffset(AfterPaddles(lastFrame'.delta, 0), lastFrame'.hitBlock)
              along == IF h.vertical THEN lastFrame'.bounce[2] ELSE lastFrame'.bounce[1]
          IN  /\ Abs(h.along) <= h.half
              /\ Abs(RDiv(h.along * MAX_BOUNCE_ANGLE, h.half)) <= MAX_BOUNCE_ANGLE
              /\ Sign(along) = Sign(h.across)
      ]_vars


\* the ball as the AI step of the last frame saw it
BallNow ==
    [x |-> ball.x, y |-> ball.y, vx |-> ballVelocity.x, vy |-> ballVelocity.y]

\* ball.x + ballVelocity.x * timeToReachPaddle, before the reflection
RawPrediction ==
    ball.x + RDiv(ballVelocity.x * (AiPaddleY + props.paddleHeight - ball.y),
                  -ballVelocity.y)

InField(x) == R <= x /\ x <= W - R

\* C20, as the spec states it: whenever the ball moves toward the AI, the
\* predicted landing x after the reflection lies in
\* [BALL_RADIUS, GAME_WIDTH - BALL_RADIUS].
C20_PredictionInField ==
    pixi = "running" /\ frames >= 1 /\ ballVelocity.y < 0 =>
        InField(PredictedX(props, BallNow))

\* C20, as the code has it: whenever the ball moves toward the AI, the
\* prediction is mirrored once at the side it left the field by; it is left
\* as it is when it lies in [BALL_RADIUS, GAME_WIDTH - BALL_RADIUS], and it
\* ends in that range exactly when it was less than
\* GAME_WIDTH - 2 * BALL_RADIUS beyond it.
C20_SingleReflection ==
    pixi = "running" /\ frames >= 1 /\ ballVelocity.y < 0 =>
        LET raw == RawPrediction
            predictedX == PredictedX(props, BallNow)
        IN  /\ InField(raw) => predictedX = raw
            /\ raw < R => predictedX = 2 * R - raw
            /\ raw > W - R => predictedX = 2 * (W - R) - raw
            /\ InField(predictedX) <=>
                  R - (W - 2 * R) <= raw /\ raw <= (W - R) + (W - 2 * R)

\* a prediction beyond the field that the reflection brings back into it
C20_Witness ==
    /\ pixi = "running" /\ frames >= 1 /\ ballVelocity.y < 0
    /\ ~InField(RawPrediction)
    /\ InField(PredictedX(props, BallNow))


\* C13: while the simulation is paused, that is while the host has set
\* isPaused and the ticker of the running app is stopped, no step changes
\* the ball, its velocity and speed, a paddle's x, a block or a particle
C13_PausedStateFrozen ==
    [][ (pixi = "running" /\ isPaused /\ ~tickerStarted) => UNCHANGED simVars ]_vars


\* C14: once the Game is unmounted the audio context is closed and no app is
\* active; every app created is destroyed as soon as no init is pending, so
\* the app of an init that was pending at teardown is destroyed when the init
\* completes and never becomes the active app; and no step taken after the
\* unmount is a frame or changes a game object
C14_TeardownReleases ==
    /\ [](~isMounted =>
            /\ audioContext = "null"
            /\ pixi # "running"
            /\ ~tickerStarted
            /\ liveApps = (IF pixi = "initializing" THEN 1 ELSE 0))
    /\ [][ ~isMounted =>
            /\ ~IsFrame
            /\ UNCHANGED <<simVars, isMounted, audioContext, tickerStarted>>
            /\ pixi' # "running"
            /\ (pixi = "initializing" /\ pixi' # pixi) => liveApps' = 0 ]_vars

\* a Game torn down while it ran, after frames with the audio context open:
\* its app is destroyed and its audio context closed
C14_Witness ==
    /\ ~isMounted
    /\ pixi = "none"
    /\ liveApps = 0
    /\ frames > 0
    /\ soundsDefined
    /\ audioContext = "null"


\* the frame's collision logic as it runs when every sound trigger returns
QuietFrame(delta, angle) ==
    Renormalize(BlockCollision(
        PaddleCollision(props,
            PaddleCollision(props, ScoreCheck(props, AfterWall(delta), angle),
                            "player", playerPaddleX),
            "ai", aiPaddleX)))

\* C15: whatever the audio does, missing at init or failing when a trigger
\* is fired, every frame leaves the ball, its velocity and speed, the blocks
\* and the score event as the frame does when sound succeeds, with the ball
\* reset on a score, and the ticker keeps running
C15_SoundFailureHarmless ==
    [][ IsFrame =>
          /\ tickerStarted'
          /\ \E angle \in ServeAngles :
               LET q == QuietFrame(lastFrame'.delta, angle)
               IN  /\ ball' = [x |-> q.x, y |-> q.y]
                   /\ ballVelocity' = [x |-> q.vx, y |-> q.vy]
                   /\ currentBallSpeed' = q.speed
                   /\ blocks' = q.blocks
                   /\ scoreQueue' = scoreQueue \o q.scored ]_vars


\* the score once React has applied the score events that are pending
PendingScore == ApplyUpdaters(score, scoreQueue)

C22_WallSendsBallBack ==
    [][ IsFrame =>
          /\ ball'.x - R < 0 => ballVelocity'.x > 0
          /\ ball'.x + R > W => ballVelocity'.x < 0 ]_vars


\* whether the sequence s has the element e
Has(s, e) == \E k \in DOMAIN s : s[k] = e

\* C23: a frame in which the ball hits the player paddle ends with vy < 0 and
\* ball.y = paddle.y - BALL_RADIUS, a frame in which it hits the AI paddle
\* with vy > 0 and ball.y = paddle.y + paddleHeight + BALL_RADIUS, and the
\* frame after a paddle hit does not hit the same paddle again.
C23_PaddleSendsBallAway ==
    [][ IsFrame =>
          /\ lastFrame'.paddles = <<"player">> =>
                /\ ballVelocity'.y < 0
                /\ ball'.y = PlayerPaddleY(props) - R
          /\ lastFrame'.paddles = <<"ai">> =>
                /\ ballVelocity'.y > 0
                /\ ball'.y = AiPaddleY + props.paddleHeight + R
          /\ \A who \in {"player", "ai"} :
                Has(lastFrame.paddles, who) => ~Has(lastFrame'.paddles, who) ]_vars


\* C24: whenever the renderer is initialised and isPaused is true the ticker
\* is stopped, and no frame advances while isPaused is true.
C24_PausedTickerStopped ==
    /\ [](pixi = "running" /\ isPaused => ~tickerStarted)
    /\ [][isPaused => ~IsFrame]_vars


\* whether x lies between a and b, ends included
Between(a, x, b) == (a <= x /\ x <= b) \/ (b <= x /\ x <= a)

\* targetXForPaddle of the frame that has just run, for one draw of the error
TargetXForPaddle(rand) ==
    AiTargetX(props, [x |-> ball'.x, y |-> ball'.y,
                      vx |-> ballVelocity'.x, vy |-> ballVelocity'.y], rand)
        - props.paddleWidth \div 2

\* C25: in every frame the AI paddle's new x lies between its previous x and
\* its target x for the paddle (aiTargetX - paddleWidth / 2): the paddle
\* never passes the target in one step.
C25_AiNeverOvershoots ==
    [][ IsFrame =>
          \E rand \in Rands \cup SessionRands :
              Between(aiPaddleX, aiPaddleX', TargetXForPaddle(rand)) ]_vars


\* the frame as it reaches the re-normalization
BeforeRenormalize(delta) == BlockStep(AfterPaddles(delta, 0))

\* C26: a frame that marks re-normalization while the ball's velocity is
\* (0,0) leaves the velocity exactly (0,0), and everything else ends as the
\* frame's other steps set it: the ball's position, currentBallSpeed (raised
\* where a paddle was hit), the blocks, the trail and the AI paddle.
C26_ZeroVelocityKept ==
    [][ IsFrame =>
          LET f == BeforeRenormalize(lastFrame'.delta)
          IN  (f.norm /\ f.vx = 0 /\ f.vy = 0) =>
                /\ ballVelocity' = [x |-> 0, y |-> 0]
                /\ ball' = [x |-> f.x, y |-> f.y]
                /\ currentBallSpeed' = f.speed
                /\ blocks' = f.blocks
                /\ trailParticles' =
                      UpdateTrail(Append(trailParticles, Px(TRAIL_MAX_LIFE)),
                                  lastFrame'.delta)
                /\ aiPaddleX' = AiMove(props, f, aiPaddleX, lastFrame'.delta, 50)
                /\ UNCHANGED <<playerPaddleX, scoreQueue>> ]_vars

\* a frame has hit the player paddle with a ball that had no velocity: the
\* speed is raised and the velocity is still (0,0)
C26_Witness ==
    /\ frames >= 1
    /\ lastFrame.norm
    /\ lastFrame.paddles = <<"player">>
    /\ ballVelocity = [x |-> 0, y |-> 0]
    /\ currentBallSpeed = lastFrame.speedBefore + props.speedIncrease

====
